---- MODULE Spec2Model ----
(***************************************************************************)
(* expo-iap-ai-token-subscription: the generation ledger (TokenManager),   *)
(* the renewal reconciler (RenewalService) and the two storage adapters    *)
(* (InMemoryAdapter, SupabaseAdapter) for one device.                      *)
(*                                                                         *)
(* Every public method is an action that runs the whole handler and leaves *)
(* in `last` what the call started from, did and returned; Return hands    *)
(* the result to the caller.  SpecReplay keeps the previous delivery in    *)
(* `prev`.  SpecConcurrent splits useGeneration and checkAndHandleRenewal  *)
(* at their awaits on the store, so that calls started together interleave *)
(* as they do on the JavaScript event loop.                                *)
(***************************************************************************)
EXTENDS Integers, Sequences, FiniteSets, TLC

\* ------------------------------------------------------------------ bounds

\* Wall-clock instants are 1..MaxTime (epoch milliseconds, scaled).
MaxTime == 3
\* Tier limits a configuration may ask for are at most MaxLimit.
MaxLimit == 2

\* ------------------------------------------------ JavaScript value encoding

\* A number that is absent (undefined) or 0: both are falsy, and the code only
\* ever tests dates with `!d` and `d || ...`.
NoDate == 0
\* A string that is absent (undefined) or '': both are falsy under `!s`, `s || t`.
NoId == ""
\* subscriptionPlan === null.  '' is the empty plan, a different value.
NoPlan == "<null>"
\* lastRenewalAt / createdAt === null.
NullDate == << >>

\* new Date(ms).toISOString(): the ISO-8601 text of an instant, millisecond
\* precision; a value of another type than the number it was made from.
toISOString(ms) == << ms >>
\* new Date(iso).getTime()
getTime(iso) == iso[1]

Max(a, b) == IF a >= b THEN a ELSE b

\* ------------------------------------------------------------ configuration

\* validateConfig: throws unless this holds.
validateConfig_AcceptsNegative(c) ==
    /\ c.productId # NoId
    /\ c.resetPeriod \in {"monthly", "weekly", "daily"}

validateConfig(c) ==
    /\ c.productId # NoId
    /\ ~(c.freeTierLimit < 0)
    /\ ~(c.proTierLimit < 0)
    /\ c.resetPeriod \in {"monthly", "weekly", "daily"}

\* The configurations handed to TokenProvider; only those validateConfig
\* accepts construct the services.
ConfigCandidates ==
    [ productId        : {NoId, "pro_monthly"},
      freeTierLimit    : {-1, 0, MaxLimit},
      proTierLimit     : {-1, 0, MaxLimit},
      resetPeriod      : {"monthly", "yearly"},
      onSubscriptionActivated : BOOLEAN,
      onGenerationUsed : BOOLEAN,
      onLimitReached   : BOOLEAN ]

\* The application sets the three callbacks.
Configs ==
    { c \in ConfigCandidates :
        /\ validateConfig(c)
        /\ c.onSubscriptionActivated /\ c.onGenerationUsed /\ c.onLimitReached }

\* DEFAULT_CONFIG
DEFAULT_CONFIG ==
    [ freeTierLimit |-> 5, proTierLimit |-> 100, resetPeriod |-> "monthly" ]

\* `x ?? d` and `x || d` on an optional field (<< >>: undefined).
OrDefault_Falsy(x, d) == IF x = << >> \/ x = << 0 >> THEN d ELSE x[1]

OrDefault(x, d) == IF x = << >> THEN d ELSE x[1]

\* createConfig(userConfig)
createConfig(uc) ==
    [ productId        |-> uc.productId,
      freeTierLimit    |-> OrDefault(uc.freeTierLimit, DEFAULT_CONFIG.freeTierLimit),
      proTierLimit     |-> OrDefault(uc.proTierLimit, DEFAULT_CONFIG.proTierLimit),
      resetPeriod      |-> OrDefault(uc.resetPeriod, DEFAULT_CONFIG.resetPeriod),
      onSubscriptionActivated |-> uc.onSubscriptionActivated,
      onGenerationUsed |-> uc.onGenerationUsed,
      onLimitReached   |-> uc.onLimitReached ]

\* The `config` props handed to TokenProvider: each optional field omitted
\* or given.
UserConfigs ==
    [ productId        : {NoId, "pro_monthly"},
      freeTierLimit    : {<< >>, << -1 >>, << 0 >>, << MaxLimit >>},
      proTierLimit     : {<< >>, << -1 >>, << 0 >>, << MaxLimit >>},
      resetPeriod      : {<< >>, << "monthly" >>, << "weekly" >>, << "daily" >>,
                          << "yearly" >>},
      onSubscriptionActivated : {TRUE},
      onGenerationUsed : {TRUE},
      onLimitReached   : {TRUE} ]

\* ------------------------------------------------------------------ events

\* A purchase / subscription object of expo-iap, with the fields the services
\* and adapters read.  transactionId stands for `transactionId || id`.
Event(id, orig, txDate, purchaseDate, expiration) ==
    [ transactionId |-> id, originalTransactionIdentifierIOS |-> orig,
      transactionDate |-> txDate, purchaseDateIOS |-> purchaseDate,
      expirationDateIOS |-> expiration ]

\* The events of transaction "t1" in the subscription chain "o1": every
\* transaction date, and none; expiring never or at MaxTime - 1 (before, at
\* and after the clock's instants); and one without the chain's id.
ChainEvents ==
    { Event("t1", "o1", d, NoDate, x) :
        d \in 0 .. MaxTime, x \in {NoDate, MaxTime - 1} }
    \cup { Event("t1", "o1", NoDate, 1, NoDate),
           Event("t1", NoId, MaxTime, NoDate, NoDate) }

\* An event of the chain without a transaction id.
OtherEvents ==
    { Event(NoId, "o1", MaxTime, NoDate, NoDate) }

NoEvent ==
    [ transactionId |-> NoId, originalTransactionIdentifierIOS |-> NoId,
      transactionDate |-> NoDate, purchaseDateIOS |-> NoDate,
      expirationDateIOS |-> NoDate ]

\* ------------------------------------------------------- UserData, adapters

\* UserData (deviceId is the one device of the model).
UserData(plan, generations, created, renewal) ==
    [ subscriptionPlan |-> plan, generationsLeft |-> generations,
      createdAt |-> created, lastRenewalAt |-> renewal ]

\* The result of an adapter call on the user table: what it returns, and the
\* table after it.
Result(ok, rows) == [ ok |-> ok, users |-> rows ]

\* Which adapter calls can fail: InMemoryAdapter has no failing backend,
\* SupabaseAdapter's backend can return an error on any request.
Failures(a) == IF a = "supabase" THEN BOOLEAN ELSE {FALSE}

\* getUserData: Map.get(deviceId) || null; Supabase's .single() yields an
\* error (hence null) unless exactly one row matches.
getUserData(a, rows, fail) ==
    IF a = "memory"
    THEN (IF Len(rows) > 0 THEN << rows[1] >> ELSE << >>)
    ELSE (IF fail \/ Len(rows) # 1 THEN << >> ELSE << rows[1] >>)

\* initializeUser(deviceId, freeLimit): returns the existing record, or
\* creates { plan: null, generationsLeft: freeLimit, lastRenewalAt: null }.
initializeUser(a, rows, freeLimit, t, fail) ==
    IF a = "supabase" /\ fail THEN Result(FALSE, rows)
    ELSE IF Len(rows) > 0 THEN Result(TRUE, rows)
    ELSE Result(TRUE, << UserData(NoPlan, freeLimit, toISOString(t), NullDate) >>)

\* SupabaseAdapter.initializeUser from `.insert({ device_id, ... })` on: the
\* table `user` has `device_id TEXT PRIMARY KEY`, so the insert of a second
\* row for the device is an error.
insertUser_NoPrimaryKey(rows, freeLimit, t, fail) ==
    IF fail THEN Result(FALSE, rows)
    ELSE Result(TRUE, Append(rows, UserData(NoPlan, freeLimit, toISOString(t),
                                            NullDate)))

insertUser(rows, freeLimit, t, fail) ==
    IF fail \/ Len(rows) > 0 THEN Result(FALSE, rows)
    ELSE Result(TRUE, << UserData(NoPlan, freeLimit, toISOString(t), NullDate) >>)

\* updateGenerations(deviceId, count)
updateGenerations(a, rows, count, fail) ==
    IF a = "memory"
    THEN (IF Len(rows) = 0 THEN Result(FALSE, rows)
          ELSE Result(TRUE, [ i \in 1 .. Len(rows) |->
                                [ rows[i] EXCEPT !.generationsLeft = count ] ]))
    ELSE (IF fail THEN Result(FALSE, rows)
          ELSE Result(TRUE, [ i \in 1 .. Len(rows) |->
                                [ rows[i] EXCEPT !.generationsLeft = count ] ]))

\* updateSubscriptionPlan(deviceId, plan, generations): also stamps
\* lastRenewalAt with new Date().toISOString().
updateSubscriptionPlan_NoStamp(a, rows, plan, generations, t, fail) ==
    IF (a = "memory" /\ Len(rows) = 0) \/ (a = "supabase" /\ fail)
    THEN Result(FALSE, rows)
    ELSE Result(TRUE, [ i \in 1 .. Len(rows) |->
                          [ rows[i] EXCEPT !.subscriptionPlan = plan,
                                           !.generationsLeft = generations ] ])

updateSubscriptionPlan(a, rows, plan, generations, t, fail) ==
    IF (a = "memory" /\ Len(rows) = 0) \/ (a = "supabase" /\ fail)
    THEN Result(FALSE, rows)
    ELSE Result(TRUE, [ i \in 1 .. Len(rows) |->
                          [ rows[i] EXCEPT !.subscriptionPlan = plan,
                                           !.generationsLeft = generations,
                                           !.lastRenewalAt = toISOString(t) ] ])

\* updateLastRenewal(deviceId, date)
updateLastRenewal(a, rows, date, fail) ==
    IF (a = "memory" /\ Len(rows) = 0) \/ (a = "supabase" /\ fail)
    THEN Result(FALSE, rows)
    ELSE Result(TRUE, [ i \in 1 .. Len(rows) |->
                          [ rows[i] EXCEPT !.lastRenewalAt = date ] ])

\* cancelSubscription(deviceId): InMemoryAdapter clears the plan;
\* SupabaseAdapter clears the plan and sets generations_left to 0.
cancelSubscription_ClearsRenewal(a, rows, fail) ==
    IF (a = "memory" /\ Len(rows) = 0) \/ (a = "supabase" /\ fail)
    THEN Result(FALSE, rows)
    ELSE Result(TRUE, [ i \in 1 .. Len(rows) |->
                          [ rows[i] EXCEPT !.subscriptionPlan = NoPlan,
                                           !.lastRenewalAt = NullDate ] ])

cancelSubscription(a, rows, fail) ==
    IF a = "memory"
    THEN (IF Len(rows) = 0 THEN Result(FALSE, rows)
          ELSE Result(TRUE, [ i \in 1 .. Len(rows) |->
                                [ rows[i] EXCEPT !.subscriptionPlan = NoPlan ] ]))
    ELSE (IF fail THEN Result(FALSE, rows)
          ELSE Result(TRUE, [ i \in 1 .. Len(rows) |->
                                [ rows[i] EXCEPT !.subscriptionPlan = NoPlan,
                                                 !.generationsLeft = 0 ] ]))

\* ------------------------------------------------- SubscriptionData, upsert

\* The id a record is stored under: InMemoryAdapter falls back to
\* `tx-${Date.now()}`, SupabaseAdapter refuses a purchase without an id.
upsertId(a, e, t) ==
    IF e.transactionId # NoId THEN e.transactionId
    ELSE IF a = "memory" THEN "tx-" \o ToString(t) ELSE NoId

\* The stored row for a purchase.
SubscriptionData(a, e, t) ==
    [ transactionId |-> upsertId(a, e, t),
      originalTransactionId |-> e.originalTransactionIdentifierIOS,
      transactionDate |->
          IF a = "memory"
          THEN (IF e.transactionDate # NoDate THEN e.transactionDate ELSE t)
          ELSE (IF e.transactionDate # NoDate THEN e.transactionDate
                ELSE IF e.purchaseDateIOS # NoDate THEN e.purchaseDateIOS ELSE t),
      expirationDate |-> e.expirationDateIOS,
      isActive |->
          IF a = "memory" THEN TRUE
          ELSE (e.expirationDateIOS = NoDate \/ e.expirationDateIOS > t),
      isCancelled |-> FALSE ]

IndexOf(rows, id) ==
    IF \E i \in 1 .. Len(rows) : rows[i].transactionId = id
    THEN CHOOSE i \in 1 .. Len(rows) :
            /\ rows[i].transactionId = id
            /\ \A j \in 1 .. (i - 1) : rows[j].transactionId # id
    ELSE 0

\* upsertSubscription(deviceId, purchase): replace the record with the same
\* transaction id, or append one.
upsertSubscription(a, rows, e, t, fail) ==
    IF a = "supabase" /\ (fail \/ upsertId(a, e, t) = NoId)
    THEN [ ok |-> FALSE, subscriptions |-> rows ]
    ELSE LET row == SubscriptionData(a, e, t)
             i == IndexOf(rows, row.transactionId)
         IN  [ ok |-> TRUE,
               subscriptions |->
                   IF i > 0
                   THEN (IF a = "memory"
                         THEN [ rows EXCEPT ![i] = row ]
                         ELSE [ j \in 1 .. Len(rows) |->
                                  IF rows[j].transactionId = row.transactionId
                                  THEN row ELSE rows[j] ])
                   ELSE Append(rows, row) ]

\* markSubscriptionCancelled(transactionId): InMemoryAdapter marks the first
\* record with the id and fails when there is none; SupabaseAdapter updates
\* every row with the id.
markSubscriptionCancelled(a, rows, id, fail) ==
    IF a = "memory"
    THEN (IF IndexOf(rows, id) = 0
          THEN [ ok |-> FALSE, subscriptions |-> rows ]
          ELSE [ ok |-> TRUE,
                 subscriptions |->
                     [ rows EXCEPT ![IndexOf(rows, id)].isCancelled = TRUE,
                                   ![IndexOf(rows, id)].isActive = FALSE ] ])
    ELSE (IF fail THEN [ ok |-> FALSE, subscriptions |-> rows ]
          ELSE [ ok |-> TRUE,
                 subscriptions |->
                     [ j \in 1 .. Len(rows) |->
                         IF rows[j].transactionId = id
                         THEN [ rows[j] EXCEPT !.isCancelled = TRUE,
                                               !.isActive = FALSE ]
                         ELSE rows[j] ] ])

\* getActiveSubscription(deviceId), the records being in insertion order:
\* InMemoryAdapter returns the first record that is active and has not
\* expired; SupabaseAdapter returns the most recently created row with
\* is_active = true.
getActiveSubscription(a, rows, t, fail) ==
    LET live == IF a = "memory"
                THEN { i \in 1 .. Len(rows) :
                         /\ rows[i].isActive
                         /\ ~(rows[i].expirationDate # NoDate
                              /\ rows[i].expirationDate < t) }
                ELSE { i \in 1 .. Len(rows) : rows[i].isActive }
    IN  IF live = { } \/ (a = "supabase" /\ fail) THEN << >>
        ELSE IF a = "memory"
        THEN << rows[CHOOSE i \in live : \A j \in live : i <= j] >>
        ELSE << rows[CHOOSE i \in live : \A j \in live : i >= j] >>

\* ------------------------------------------------------------ TokenManager

\* What a finished call returned and did: the adapter writes it made, the
\* callbacks it fired, and whether a backend request of it failed.
Outcome(ret, rows, subs, writes, fired, decision, err) ==
    [ ret |-> ret, users |-> rows, subscriptions |-> subs, writes |-> writes,
      fired |-> fired, decision |-> decision, err |-> err ]

Callback(cb, arg) == [ cb |-> cb, arg |-> arg ]

\* TokenManager.initializeUser()
TokenManager_initializeUser(a, cfg, rows, subs, t, fail) ==
    LET r == initializeUser(a, rows, cfg.freeTierLimit, t, fail)
    IN  Outcome(r.ok, r.users, subs,
                IF r.users # rows THEN << "initializeUser" >> ELSE << >>,
                << >>, "n/a", fail)

\* canGenerate: `subscriptionPlan !== null && subscriptionPlan !== ''`
isSubscribed_NullOnly(u) == u.subscriptionPlan # NoPlan

isSubscribed(u) == u.subscriptionPlan # NoPlan /\ u.subscriptionPlan # ""

\* GenerationCheckResult
GenerationCheckResult(can, left, needs) ==
    [ canGenerate |-> can, generationsLeft |-> left, needsSubscription |-> needs ]

\* TokenManager.canGenerate()
canGenerate(a, rows, fail) ==
    LET ud == getUserData(a, rows, fail)
    IN  IF ud = << >> THEN GenerationCheckResult(FALSE, 0, TRUE)
        ELSE IF isSubscribed(ud[1]) /\ ud[1].generationsLeft > 0
        THEN GenerationCheckResult(TRUE, ud[1].generationsLeft, FALSE)
        ELSE IF ~isSubscribed(ud[1])
        THEN (IF ud[1].generationsLeft > 0
              THEN GenerationCheckResult(TRUE, ud[1].generationsLeft, FALSE)
              ELSE GenerationCheckResult(FALSE, 0, TRUE))
        ELSE GenerationCheckResult(FALSE, 0, FALSE)

\* useGeneration: `if (userData.generationsLeft <= 0) return false`
noGenerationsLeft_BelowZero(u) == u.generationsLeft < 0

noGenerationsLeft(u) == u.generationsLeft <= 0

\* useGeneration: `Math.max(0, userData.generationsLeft - 1)`
newCount_ByTwo(u) == Max(0, u.generationsLeft - 2)

newCount(u) == Max(0, u.generationsLeft - 1)

\* useGeneration: the two early returns after getUserData.
useGenerationStops(ud) == ud = << >> \/ noGenerationsLeft(ud[1])

\* useGeneration: the callbacks after a successful write.
usedCallbacks_AtOne(cfg, u, count) ==
    (IF cfg.onGenerationUsed
     THEN << Callback("onGenerationUsed", count) >> ELSE << >>)
    \o (IF count <= 1 /\ cfg.onLimitReached
        THEN << Callback("onLimitReached", ~(u.subscriptionPlan # NoPlan)) >>
        ELSE << >>)

usedCallbacks(cfg, u, count) ==
    (IF cfg.onGenerationUsed
     THEN << Callback("onGenerationUsed", count) >> ELSE << >>)
    \o (IF count = 0 /\ cfg.onLimitReached
        THEN << Callback("onLimitReached", ~(u.subscriptionPlan # NoPlan)) >>
        ELSE << >>)

\* useGeneration from updateGenerations(deviceId, newCount) on, for the user
\* data `ud` it read.
useGenerationWrite(a, cfg, rows, subs, ud, count, err, fail) ==
    LET r == updateGenerations(a, rows, count, fail)
    IN  Outcome(r.ok, r.users, subs, << "updateGenerations" >>,
                IF r.ok THEN usedCallbacks(cfg, ud[1], count) ELSE << >>,
                "n/a", err \/ fail)

\* TokenManager.useGeneration()
useGeneration(a, cfg, rows, subs, f1, f2) ==
    LET ud == getUserData(a, rows, f1)
    IN  IF useGenerationStops(ud)
        THEN Outcome(FALSE, rows, subs, << >>, << >>, "n/a", f1)
        ELSE useGenerationWrite(a, cfg, rows, subs, ud, newCount(ud[1]), f1, f2)

\* TokenManager.resetGenerations()
resetGenerations(a, cfg, rows, subs, fail) ==
    LET r == updateGenerations(a, rows, cfg.proTierLimit, fail)
    IN  Outcome(r.ok, r.users, subs, << "updateGenerations" >>, << >>, "n/a", fail)

\* TokenManager.activateSubscription(plan)
activateSubscription(a, cfg, rows, subs, plan, t, fail) ==
    LET r == updateSubscriptionPlan(a, rows, plan, cfg.proTierLimit, t, fail)
    IN  Outcome(r.ok, r.users, subs, << "updateSubscriptionPlan" >>,
                IF r.ok /\ cfg.onSubscriptionActivated
                THEN << Callback("onSubscriptionActivated", TRUE) >> ELSE << >>,
                "n/a", fail)

\* TokenManager.cancelSubscription()
TokenManager_cancelSubscription(a, rows, subs, fail) ==
    LET r == cancelSubscription(a, rows, fail)
    IN  Outcome(r.ok, r.users, subs, << "cancelSubscription" >>, << >>, "n/a", fail)

\* ---------------------------------------------------------- RenewalService

\* checkAndHandleRenewal: `subscription.transactionDate ||
\* subscription.purchaseDateIOS || Date.now()`
transactionDateOf(e, t) ==
    IF e.transactionDate # NoDate THEN e.transactionDate
    ELSE IF e.purchaseDateIOS # NoDate THEN e.purchaseDateIOS
    ELSE t

\* checkAndHandleRenewal: `!expirationDate || expirationDate > now`
isActive(expirationDate, t) ==
    expirationDate = NoDate \/ expirationDate > t

\* RenewalService.shouldRenew, on the user data it loaded.
shouldRenew_Inclusive(ud, transactionDate) ==
    IF ud = << >> THEN FALSE
    ELSE IF ud[1].subscriptionPlan \in {NoPlan, ""} THEN FALSE
    ELSE IF ud[1].lastRenewalAt = NullDate THEN TRUE
    ELSE transactionDate >= getTime(ud[1].lastRenewalAt)

shouldRenew_IgnoresPlan(ud, transactionDate) ==
    IF ud = << >> THEN FALSE
    ELSE IF ud[1].lastRenewalAt = NullDate THEN TRUE
    ELSE transactionDate > getTime(ud[1].lastRenewalAt)

shouldRenew(ud, transactionDate) ==
    IF ud = << >> THEN FALSE
    ELSE IF ud[1].subscriptionPlan \in {NoPlan, ""} THEN FALSE
    ELSE IF ud[1].lastRenewalAt = NullDate THEN TRUE
    ELSE transactionDate > getTime(ud[1].lastRenewalAt)

\* checkAndHandleRenewal: `if (!needsRenewal) return false`
returnsEarly(needsRenewal) == ~needsRenewal

\* checkAndHandleRenewal up to its first store write: the liveness check, the
\* linkage check, and shouldRenew on the user data it loads.
renewalDecision(a, rows, e, t, f1) ==
    IF ~isActive(e.expirationDateIOS, t) THEN "expired"
    ELSE IF e.originalTransactionIdentifierIOS = NoId THEN "unlinked"
    ELSE IF returnsEarly(shouldRenew(getUserData(a, rows, f1),
                                     transactionDateOf(e, t)))
    THEN "skip"
    ELSE "renew"

\* RenewalService.processRenewal('pro'), after the upsert that left `subs`.
processRenewal(a, cfg, rows, subs, t, err, fail) ==
    LET r == updateSubscriptionPlan(a, rows, "pro", cfg.proTierLimit, t, fail)
    IN  Outcome(r.ok, r.users, subs,
                << "upsertSubscription", "updateSubscriptionPlan" >>,
                IF r.ok /\ cfg.onSubscriptionActivated
                THEN << Callback("onSubscriptionActivated", TRUE) >> ELSE << >>,
                "renew", err \/ fail)

\* RenewalService.checkAndHandleRenewal(subscription)
checkAndHandleRenewal_SavesFirst(a, cfg, rows, subs, e, t, f1, f2, f3) ==
    LET d == renewalDecision(a, rows, e, t, f1)
        up == upsertSubscription(a, subs, e, t, f2)
    IN  IF d # "renew"
        THEN Outcome(FALSE, rows, up.subscriptions, << "upsertSubscription" >>,
                     << >>, d, d = "skip" /\ f1)
        ELSE processRenewal(a, cfg, rows, up.subscriptions, t, f1 \/ f2, f3)

checkAndHandleRenewal(a, cfg, rows, subs, e, t, f1, f2, f3) ==
    LET d == renewalDecision(a, rows, e, t, f1)
    IN  IF d # "renew"
        THEN Outcome(FALSE, rows, subs, << >>, << >>, d, d = "skip" /\ f1)
        ELSE LET up == upsertSubscription(a, subs, e, t, f2)
             IN  processRenewal(a, cfg, rows, up.subscriptions, t, f1 \/ f2, f3)

\* ------------------------------------------------- operations that throw

\* The adapter methods and configured callbacks the services call.
AdapterMethods ==
    { "getDeviceId", "initializeUser", "getUserData", "updateGenerations",
      "updateSubscriptionPlan", "cancelSubscription", "upsertSubscription" }

CallbackNames == { "onGenerationUsed", "onLimitReached", "onSubscriptionActivated" }

\* How far a method body got: it returned `v`, or an exception left it; the
\* store it leaves; and whether a call it made threw.
Run(v, rows, subs) ==
    [ kind |-> "resolved", value |-> v, users |-> rows, subscriptions |-> subs,
      threw |-> FALSE ]

Thrown(rows, subs) ==
    [ kind |-> "rejected", value |-> "error", users |-> rows,
      subscriptions |-> subs, threw |-> TRUE ]

\* One of the calls `names` throws, `th` being the methods and callbacks
\* that throw when called.
Throws(th, names) == th \cap names # { }

\* try { body } catch (error) { return fallback }
Try(r, fallback) ==
    IF r.kind = "rejected"
    THEN [ r EXCEPT !.kind = "resolved", !.value = fallback ]
    ELSE r

\* TokenManager.initializeUser()
Try_initializeUser(a, cfg, rows, subs, t, th) ==
    Try(IF Throws(th, {"getDeviceId", "initializeUser"}) THEN Thrown(rows, subs)
        ELSE LET r == initializeUser(a, rows, cfg.freeTierLimit, t, FALSE)
             IN  Run(IF r.ok THEN << r.users[1] >> ELSE << >>, r.users, subs),
        << >>)

\* TokenManager.getUserData()
Try_getUserData(a, rows, subs, th) ==
    Try(IF Throws(th, {"getDeviceId", "getUserData"}) THEN Thrown(rows, subs)
        ELSE Run(getUserData(a, rows, FALSE), rows, subs),
        << >>)

\* TokenManager.hasSubscription(): `userData?.subscriptionPlan !== null &&
\* userData?.subscriptionPlan !== ''`, undefined for no user data.
hasSubscription(ud) == IF ud = << >> THEN TRUE ELSE isSubscribed(ud[1])

Try_hasSubscription(a, rows, subs, th) ==
    LET g == Try_getUserData(a, rows, subs, th)
    IN  [ g EXCEPT !.value = hasSubscription(g.value) ]

\* TokenManager.getGenerationsLeft(): `userData?.generationsLeft ?? 0`
Try_getGenerationsLeft(a, rows, subs, th) ==
    LET g == Try_getUserData(a, rows, subs, th)
    IN  [ g EXCEPT !.value = IF g.value = << >> THEN 0
                              ELSE g.value[1].generationsLeft ]

\* TokenManager.canGenerate()
Try_canGenerate(a, rows, subs, th) ==
    LET g == Try_getUserData(a, rows, subs, th)
    IN  Try([ g EXCEPT !.value =
                 IF g.value = << >> THEN GenerationCheckResult(FALSE, 0, TRUE)
                 ELSE canGenerate(a, rows, FALSE) ],
            GenerationCheckResult(FALSE, 0, TRUE))

\* TokenManager.useGeneration()
Try_useGeneration(a, cfg, rows, subs, th) ==
    LET g == Try_getUserData(a, rows, subs, th)
    IN  Try(IF useGenerationStops(g.value) THEN [ g EXCEPT !.value = FALSE ]
            ELSE IF Throws(th, {"getDeviceId", "updateGenerations"})
            THEN Thrown(rows, subs)
            ELSE LET count == newCount(g.value[1])
                     r == updateGenerations(a, rows, count, FALSE)
                     fired == { usedCallbacks(cfg, g.value[1], count)[i].cb :
                                  i \in 1 .. Len(usedCallbacks(cfg, g.value[1], count)) }
                 IN  IF r.ok /\ Throws(th, fired) THEN Thrown(r.users, subs)
                     ELSE Run(r.ok, r.users, subs),
            FALSE)

\* TokenManager.resetGenerations()
Try_resetGenerations(a, cfg, rows, subs, th) ==
    Try(IF Throws(th, {"getDeviceId", "updateGenerations"}) THEN Thrown(rows, subs)
        ELSE LET r == updateGenerations(a, rows, cfg.proTierLimit, FALSE)
             IN  Run(r.ok, r.users, subs),
        FALSE)

\* The body of activateSubscription(plan) and of processRenewal(plan).
updatePlanAndNotify(a, cfg, rows, subs, plan, t, th) ==
    IF Throws(th, {"getDeviceId", "updateSubscriptionPlan"}) THEN Thrown(rows, subs)
    ELSE LET r == updateSubscriptionPlan(a, rows, plan, cfg.proTierLimit, t, FALSE)
         IN  IF r.ok /\ cfg.onSubscriptionActivated
                     /\ Throws(th, {"onSubscriptionActivated"})
             THEN Thrown(r.users, subs)
             ELSE Run(r.ok, r.users, subs)

\* TokenManager.activateSubscription(plan)
Try_activateSubscription(a, cfg, rows, subs, plan, t, th) ==
    Try(updatePlanAndNotify(a, cfg, rows, subs, plan, t, th), FALSE)

\* TokenManager.cancelSubscription()
Try_cancelSubscription(a, rows, subs, th) ==
    Try(IF Throws(th, {"getDeviceId", "cancelSubscription"}) THEN Thrown(rows, subs)
        ELSE LET r == cancelSubscription(a, rows, FALSE)
             IN  Run(r.ok, r.users, subs),
        FALSE)

\* RenewalService.shouldRenew(originalTransactionId, transactionDate)
Try_shouldRenew(a, rows, subs, transactionDate, th) ==
    Try(IF Throws(th, {"getDeviceId", "getUserData"}) THEN Thrown(rows, subs)
        ELSE Run(shouldRenew(getUserData(a, rows, FALSE), transactionDate),
                 rows, subs),
        FALSE)

\* RenewalService.processRenewal(plan)
Try_processRenewal(a, cfg, rows, subs, plan, t, th) ==
    Try(updatePlanAndNotify(a, cfg, rows, subs, plan, t, th), FALSE)

\* RenewalService.checkAndHandleRenewal(subscription)
Try_checkAndHandleRenewal(a, cfg, rows, subs, e, t, th) ==
    Try(IF ~isActive(e.expirationDateIOS, t) THEN Run(FALSE, rows, subs)
        ELSE IF e.originalTransactionIdentifierIOS = NoId THEN Run(FALSE, rows, subs)
        ELSE LET need == Try_shouldRenew(a, rows, subs, transactionDateOf(e, t), th)
             IN  IF returnsEarly(need.value) THEN [ need EXCEPT !.value = FALSE ]
                 ELSE IF Throws(th, {"getDeviceId", "upsertSubscription"})
                 THEN Thrown(rows, subs)
                 ELSE Try_processRenewal(a, cfg, rows,
                          upsertSubscription(a, subs, e, t, FALSE).subscriptions,
                          "pro", t, th),
        FALSE)

\* The async methods of TokenManager and RenewalService.
Methods ==
    { "initializeUser", "getUserData", "hasSubscription", "canGenerate",
      "useGeneration", "resetGenerations", "activateSubscription",
      "cancelSubscription", "getGenerationsLeft", "shouldRenew",
      "processRenewal", "checkAndHandleRenewal" }

\* Method `m` called on the store, with the calls of `th` throwing.
Attempted(m, a, cfg, rows, subs, e, t, th) ==
    CASE m = "initializeUser" -> Try_initializeUser(a, cfg, rows, subs, t, th)
      [] m = "getUserData" -> Try_getUserData(a, rows, subs, th)
      [] m = "hasSubscription" -> Try_hasSubscription(a, rows, subs, th)
      [] m = "canGenerate" -> Try_canGenerate(a, rows, subs, th)
      [] m = "useGeneration" -> Try_useGeneration(a, cfg, rows, subs, th)
      [] m = "resetGenerations" -> Try_resetGenerations(a, cfg, rows, subs, th)
      [] m = "activateSubscription" ->
           Try_activateSubscription(a, cfg, rows, subs, "pro", t, th)
      [] m = "cancelSubscription" -> Try_cancelSubscription(a, rows, subs, th)
      [] m = "getGenerationsLeft" -> Try_getGenerationsLeft(a, rows, subs, th)
      [] m = "shouldRenew" ->
           Try_shouldRenew(a, rows, subs, transactionDateOf(e, t), th)
      [] m = "processRenewal" -> Try_processRenewal(a, cfg, rows, subs, "pro", t, th)
      [] m = "checkAndHandleRenewal" ->
           Try_checkAndHandleRenewal(a, cfg, rows, subs, e, t, th)

\* ------------------------------------------- useTokenSubscription, purchase

\* `purchase.transactionReasonIOS || purchase.reasonIOS` when neither is set.
NoReason == "<undefined>"

Reasons == {"PURCHASE", "purchase", "RENEWAL", NoReason}

\* The purchase object handed to onPurchaseSuccess: an event with its reason.
Purchase(e, reason) == e @@ [ transactionReasonIOS |-> reason ]

\* onPurchaseSuccess: `!expirationDate || expirationDate > now`
purchaseIsActive(p, t) ==
    p.expirationDateIOS = NoDate \/ p.expirationDateIOS > t

\* onPurchaseSuccess: `transactionReason === 'PURCHASE' ||
\* transactionReason === 'purchase'`
isInitialPurchase_AnyReason(p) == p.transactionReasonIOS # NoReason

isInitialPurchase(p) == p.transactionReasonIOS \in {"PURCHASE", "purchase"}

\* SubscriptionService.saveSubscription(purchase)
saveSubscription(a, subs, p, t, fail) == upsertSubscription(a, subs, p, t, fail)

\* What onPurchaseSuccess did: the outcome of its service calls, the set of
\* processed ids it leaves, and whether it called finishTransaction.
Handled(o, seen, finished) == o @@ [ seen |-> seen, finished |-> finished ]

\* onPurchaseSuccess(purchase), `seen` being processedTransactions.current.
onPurchaseSuccess(a, cfg, rows, subs, seen, p, t, f1, f2) ==
    IF p.transactionId \in seen
    THEN Handled(Outcome(FALSE, rows, subs, << >>, << >>, "n/a", FALSE),
                 seen, FALSE)
    ELSE IF ~purchaseIsActive(p, t)
    THEN Handled(Outcome(FALSE, rows, subs, << >>, << >>, "n/a", FALSE),
                 seen \cup {p.transactionId}, TRUE)
    ELSE LET saved == saveSubscription(a, subs, p, t, f1)
         IN  IF isInitialPurchase(p)
             THEN LET o == activateSubscription(a, cfg, rows, saved.subscriptions,
                                                "pro", t, f2)
                  IN  Handled([ o EXCEPT !.writes = << "upsertSubscription" >> \o @,
                                         !.err = f1 \/ @ ],
                              seen \cup {p.transactionId}, TRUE)
             ELSE Handled(Outcome(FALSE, rows, saved.subscriptions,
                                  << "upsertSubscription" >>, << >>, "n/a", f1),
                          seen \cup {p.transactionId}, TRUE)

\* TokenProvider.refreshUserData(): `if (data) setLocalIsSubscribed(
\* data.subscriptionPlan !== null && data.subscriptionPlan !== '')`
refreshUserData(a, rows, local, fail) ==
    LET ud == getUserData(a, rows, fail)
    IN  IF ud = << >> THEN local ELSE isSubscribed(ud[1])

\* The provider's localIsSubscribed after onPurchaseSuccess(purchase), the
\* handler leaving the user table `rows`: setLocalIsSubscribed(true) once
\* the id is added to the processed set, then refreshUserData() after the
\* activation of an initial purchase.
purchaseLocalIsSubscribed(a, rows, seen, p, t, local, fail) ==
    IF p.transactionId \in seen THEN local
    ELSE IF purchaseIsActive(p, t) /\ isInitialPurchase(p)
    THEN refreshUserData(a, rows, TRUE, fail)
    ELSE TRUE

\* -------------------------------------------------------------- the state

VARIABLES
    adapter,        \* "memory" (InMemoryAdapter) or "supabase" (SupabaseAdapter)
    config,         \* the validated TokenConfig
    feed,           \* the events the subscription event feed can deliver
    keep,           \* whether `prev` is kept
    now,            \* Date.now()
    users,          \* the user table's rows for this device
    subscriptions,  \* the stored SubscriptionData of this device, in order
    calls,          \* the calls in flight that are between two store requests
    last,           \* the call that has just returned: its arguments, the
                    \* store it started from, what it did and returned
    prev,           \* the call that returned before it
    tally,          \* the useGeneration calls that have returned true since
                    \* the user record was created (-1: not counted)
    processed,      \* processedTransactions.current of each mounted
                    \* useTokenSubscription
    mockDate,       \* dateUtils' mockDate (NoDate: null)
    isVisible,      \* the isVisible state of each useSubscriptionModal()
    testRenewalLogic, \* testUtils' testRenewalLogic: "null" or "registered"
    localIsSubscribed \* TokenProvider's localIsSubscribed state

vars == << adapter, config, feed, keep, now, users, subscriptions, calls,
           last, prev, tally, processed, mockDate, isVisible,
           testRenewalLogic, localIsSubscribed >>

\* What the operations of the services never change: the construction of the
\* provider, the hooks' sets of processed transaction ids, the mock date,
\* the modal hooks' state, the registered test function and the provider's
\* local subscription flag.
Setup == << adapter, config, feed, keep, processed, mockDate, isVisible,
            testRenewalLogic, localIsSubscribed >>

\* The components that call useSubscriptionModal(): the root layout, which
\* renders SubscriptionModal, and a screen.
ModalHooks == {"RootLayoutNav", "CameraScreen"}

\* The components that call useTokenSubscription(): the tab layout and the
\* SubscriptionModal of the root layout.
Hooks == {"TabLayout", "SubscriptionModal"}

Slots == {1, 2}
NoCall == [ op |-> "none" ]

Store == [ users |-> users, subscriptions |-> subscriptions ]

\* A call: its arguments, when it started and from which store, and the user
\* data it read.
Call(op, e, plan, t, before, read) ==
    [ op |-> op, event |-> e, plan |-> plan, at |-> t, before |-> before,
      read |-> read ]

\* What a call returned and did.
Returned(o) ==
    [ ret |-> o.ret, writes |-> o.writes, fired |-> o.fired,
      decision |-> o.decision, err |-> o.err ]

\* No call is returning: the next one can start or go on.
Ready == last = NoCall

\* Call `c` returns with outcome `o`.
Finish(c, o) ==
    /\ users' = o.users
    /\ subscriptions' = o.subscriptions
    /\ last' = c @@ Returned(o)
    /\ tally' = IF tally < 0 THEN tally
                ELSE IF c.op = "initializeUser" /\ users = << >> THEN 0
                ELSE IF c.op = "useGeneration" /\ o.ret THEN tally + 1
                ELSE tally
    /\ UNCHANGED prev

\* The caller takes the result.
Return ==
    /\ last # NoCall
    /\ last' = NoCall
    /\ prev' = IF keep
               THEN (IF last.op = "checkAndHandleRenewal" THEN last ELSE NoCall)
               ELSE prev
    /\ UNCHANGED << Setup, now, users, subscriptions, calls, tally >>

Idle == [ pc |-> "idle" ]

\* Another operation resets the balance under the useGeneration calls in
\* flight.
Disturbed(cs) ==
    [ s \in Slots |-> IF cs[s].pc = "write"
                      THEN [ cs[s] EXCEPT !.call.clean = FALSE ] ELSE cs[s] ]

\* A write of operation `op` to the user record lands under the calls in
\* flight: each remembers the one write since it started, or that there was
\* more than one.
Landed(cs, op) ==
    [ s \in Slots |->
        IF cs[s].pc # "idle"
        THEN [ cs[s] EXCEPT !.call.since = IF @ = "none" THEN op ELSE "other" ]
        ELSE cs[s] ]

InitWith(adapters, configs, events, kp) ==
    /\ adapter \in adapters
    /\ config \in configs
    /\ feed = events
    /\ keep = kp
    /\ now = 1
    /\ users = << >>
    /\ subscriptions = << >>
    /\ calls = [ s \in Slots |-> Idle ]
    /\ last = NoCall
    /\ prev = NoCall
    /\ tally = -1
    /\ processed = [ h \in Hooks |-> { } ]
    /\ mockDate = NoDate
    /\ isVisible = [ i \in ModalHooks |-> FALSE ]
    /\ testRenewalLogic = "null"
    /\ localIsSubscribed = FALSE

Adapters == {"memory", "supabase"}

Init == InitWith(Adapters, Configs, ChainEvents \cup OtherEvents, FALSE)

\* The wall clock advances.
Tick ==
    /\ Ready
    /\ now < MaxTime
    /\ now' = now + 1
    /\ UNCHANGED << Setup, users, subscriptions, calls, last, prev, tally >>

InitializeUser ==
    /\ Ready
    /\ \E fail \in Failures(adapter) :
         Finish(Call("initializeUser", NoEvent, NoPlan, now, Store, << >>),
                TokenManager_initializeUser(adapter, config, users, subscriptions,
                                            now, fail))
    /\ UNCHANGED << Setup, now, calls >>

\* canGenerate: one read of the store; `check` is the result object.
CanGenerate ==
    /\ Ready
    /\ \E fail \in Failures(adapter) :
         LET r == canGenerate(adapter, users, fail)
         IN  Finish(Call("canGenerate", NoEvent, NoPlan, now, Store,
                         getUserData(adapter, users, fail)) @@ [ check |-> r ],
                    Outcome(r.canGenerate, users, subscriptions, << >>, << >>,
                            "n/a", fail))
    /\ UNCHANGED << Setup, now, calls >>

\* useGeneration with nothing between its read and its write.
UseGeneration ==
    /\ Ready
    /\ \A s \in Slots : calls[s] = Idle
    /\ \E f1 \in Failures(adapter) :
       \E f2 \in (IF useGenerationStops(getUserData(adapter, users, f1))
                  THEN {FALSE} ELSE Failures(adapter)) :
         Finish(Call("useGeneration", NoEvent, NoPlan, now, Store,
                     getUserData(adapter, users, f1)),
                useGeneration(adapter, config, users, subscriptions, f1, f2))
    /\ UNCHANGED << Setup, now, calls >>

ResetGenerations ==
    /\ Ready
    /\ \E fail \in Failures(adapter) :
         Finish(Call("resetGenerations", NoEvent, NoPlan, now, Store, << >>),
                resetGenerations(adapter, config, users, subscriptions, fail))
    /\ calls' = Landed(Disturbed(calls), "other")
    /\ UNCHANGED << Setup, now >>

\* The plan names the application activates.
Plans == {"pro", "gold", ""}

ActivateSubscription(plan) ==
    /\ Ready
    /\ \E fail \in Failures(adapter) :
         Finish(Call("activateSubscription", NoEvent, plan, now, Store, << >>),
                activateSubscription(adapter, config, users, subscriptions, plan,
                                     now, fail))
    /\ calls' = Landed(Disturbed(calls), "other")
    /\ UNCHANGED << Setup, now >>

CancelSubscription ==
    /\ Ready
    /\ \E fail \in Failures(adapter) :
         Finish(Call("cancelSubscription", NoEvent, NoPlan, now, Store, << >>),
                TokenManager_cancelSubscription(adapter, users, subscriptions, fail))
    /\ calls' = Landed(Disturbed(calls), "other")
    /\ UNCHANGED << Setup, now >>

\* checkAndHandleRenewal with nothing between its store requests.
CheckAndHandleRenewal(e) ==
    /\ Ready
    /\ \A s \in Slots : calls[s] = Idle
    /\ e \in feed
    /\ \E f1 \in Failures(adapter) :
       \E f2, f3 \in (IF renewalDecision(adapter, users, e, now, f1) = "renew"
                      THEN Failures(adapter) ELSE {FALSE}) :
         Finish(Call("checkAndHandleRenewal", e, NoPlan, now, Store,
                     getUserData(adapter, users, f1)),
                checkAndHandleRenewal(adapter, config, users, subscriptions, e, now,
                                      f1, f2, f3))
    /\ UNCHANGED << Setup, now, calls >>

Next ==
    \/ Tick
    \/ Return
    \/ InitializeUser
    \/ CanGenerate
    \/ UseGeneration
    \/ ResetGenerations
    \/ \E plan \in Plans : ActivateSubscription(plan)
    \/ CancelSubscription
    \/ \E e \in feed : CheckAndHandleRenewal(e)

Spec == Init /\ [][Next]_vars

\* ------------------------------------------------- deliveries in sequence

\* Two transactions of the chain "o1", dated 2 .. MaxTime.
ReplayEvents ==
    { Event("t" \o ToString(d), "o1", d, NoDate, NoDate) : d \in 2 .. MaxTime }

InitReplay == InitWith(Adapters, Configs, ReplayEvents, TRUE)

\* The same operations, with the call before the last one kept in `prev`.
SpecReplay == InitReplay /\ [][Next]_vars

\* ------------------------------------------------------ the free tier

InitFreeTier ==
    /\ adapter \in Adapters
    /\ config \in Configs
    /\ feed = { }
    /\ keep = FALSE
    /\ now = 1
    /\ users = << >>
    /\ subscriptions = << >>
    /\ calls = [ s \in Slots |-> Idle ]
    /\ last = NoCall
    /\ prev = NoCall
    /\ tally = 0
    /\ processed = [ h \in Hooks |-> { } ]
    /\ mockDate = NoDate
    /\ isVisible = [ i \in ModalHooks |-> FALSE ]
    /\ testRenewalLogic = "null"
    /\ localIsSubscribed = FALSE

\* A device that never purchases: no activation, no renewal, no reset.
NextFreeTier ==
    \/ Tick
    \/ Return
    \/ InitializeUser
    \/ CanGenerate
    \/ UseGeneration

SpecFreeTier == InitFreeTier /\ [][NextFreeTier]_vars

\* ------------------------------------------------------ calls in flight

\* A call that has started and has not returned: what it read, and what has
\* happened to the balance since (clean: no other operation has reset it;
\* raced: a useGeneration that had read the same balance has lowered it;
\* since: the one operation that has written the user record, if any).
Started(op, e, t, read) ==
    [ op |-> op, event |-> e, plan |-> NoPlan, at |-> t, read |-> read,
      clean |-> TRUE, raced |-> FALSE, since |-> "none" ]

\* A call between two of its store requests.
InFlight(c, err, pc) == [ pc |-> pc, err |-> err, call |-> c ]

\* The slot a new call takes.
FreeSlot(s) ==
    /\ calls[s] = Idle
    /\ \A r \in Slots : r < s => calls[r] # Idle

\* A useGeneration that read `ud` has lowered the balance under the others in
\* flight.
Raced(cs, ud) ==
    [ s \in Slots |-> IF cs[s].pc = "write" /\ cs[s].call.read = ud
                      THEN [ cs[s] EXCEPT !.call.raced = TRUE ] ELSE cs[s] ]

\* useGeneration up to `await getUserData()`: the two early returns, or
\* newCount is computed and the write is still to come.
UseGenerationRead(s) ==
    /\ Ready
    /\ FreeSlot(s)
    /\ \E f1 \in Failures(adapter) :
         LET ud == getUserData(adapter, users, f1)
             c == Started("useGeneration", NoEvent, now, ud)
         IN  IF useGenerationStops(ud)
             THEN /\ Finish(c, Outcome(FALSE, users, subscriptions, << >>, << >>,
                                       "n/a", f1))
                  /\ UNCHANGED calls
             ELSE /\ calls' = [ calls EXCEPT ![s] = InFlight(c, f1, "write") ]
                  /\ UNCHANGED << users, subscriptions, last, prev, tally >>
    /\ UNCHANGED << Setup, now >>

\* useGeneration from `await updateGenerations(deviceId, newCount)` on.
UseGenerationWrite(s) ==
    /\ Ready
    /\ calls[s].pc = "write"
    /\ \E f2 \in Failures(adapter) :
         LET c == calls[s].call
             o == useGenerationWrite(adapter, config, users, subscriptions,
                                     c.read, newCount(c.read[1]),
                                     calls[s].err, f2)
             rest == [ calls EXCEPT ![s] = Idle ]
         IN  /\ Finish(c, o)
             /\ calls' = LET cs == IF o.ret /\ c.clean
                                   THEN Raced(rest, c.read) ELSE rest
                         IN  IF o.ret THEN Landed(cs, "useGeneration") ELSE cs
    /\ UNCHANGED << Setup, now >>

\* checkAndHandleRenewal up to `await shouldRenew(...)`: the early returns,
\* or the upsert is still to come.
RenewalBegin(s, e) ==
    /\ Ready
    /\ FreeSlot(s)
    /\ e \in feed
    /\ \E f1 \in Failures(adapter) :
         LET d == renewalDecision(adapter, users, e, now, f1)
             c == Started("checkAndHandleRenewal", e, now,
                          getUserData(adapter, users, f1))
         IN  IF d # "renew"
             THEN /\ Finish(c, Outcome(FALSE, users, subscriptions, << >>, << >>,
                                       d, d = "skip" /\ f1))
                  /\ UNCHANGED calls
             ELSE /\ calls' = [ calls EXCEPT ![s] = InFlight(c, f1, "upsert") ]
                  /\ UNCHANGED << users, subscriptions, last, prev, tally >>
    /\ UNCHANGED << Setup, now >>

\* checkAndHandleRenewal: `await upsertSubscription(deviceId, subscription)`
RenewalUpsert(s) ==
    /\ Ready
    /\ calls[s].pc = "upsert"
    /\ \E f2 \in Failures(adapter) :
         /\ subscriptions' =
               upsertSubscription(adapter, subscriptions, calls[s].call.event,
                                  now, f2).subscriptions
         /\ calls' = [ calls EXCEPT ![s].pc = "process",
                                    ![s].err = calls[s].err \/ f2 ]
    /\ UNCHANGED << Setup, now, users, last, prev, tally >>

\* checkAndHandleRenewal: `await processRenewal('pro')` and the return.
RenewalProcess(s) ==
    /\ Ready
    /\ calls[s].pc = "process"
    /\ \E f3 \in Failures(adapter) :
         LET o == processRenewal(adapter, config, users, subscriptions, now,
                                 calls[s].err, f3)
             rest == Disturbed([ calls EXCEPT ![s] = Idle ])
         IN  /\ Finish(calls[s].call, o)
             /\ calls' = IF o.ret THEN Landed(rest, "checkAndHandleRenewal")
                         ELSE rest
    /\ UNCHANGED << Setup, now >>

\* One transaction of the chain "o1".
ConcurrentEvents == { Event("t1", "o1", MaxTime, NoDate, NoDate) }

InitConcurrent == InitWith(Adapters, Configs, ConcurrentEvents, FALSE)

\* The operations with their store requests interleaved, at one instant of
\* the clock.
NextConcurrent ==
    \/ Return
    \/ InitializeUser
    \/ ResetGenerations
    \/ ActivateSubscription("pro")
    \/ CancelSubscription
    \/ \E s \in Slots : UseGenerationRead(s)
    \/ \E s \in Slots : UseGenerationWrite(s)
    \/ \E s \in Slots, e \in feed : RenewalBegin(s, e)
    \/ \E s \in Slots : RenewalUpsert(s)
    \/ \E s \in Slots : RenewalProcess(s)

SpecConcurrent == InitConcurrent /\ [][NextConcurrent]_vars

\* ------------------------------------------------------ the purchase path

\* expo-iap calls the onPurchaseSuccess of the useTokenSubscription mounted
\* in component `h` with a purchase of the feed.
OnPurchaseSuccess(h, e, reason) ==
    /\ Ready
    /\ \A s \in Slots : calls[s] = Idle
    /\ e \in feed
    /\ LET p == Purchase(e, reason)
           saves == p.transactionId \notin processed[h] /\ purchaseIsActive(p, now)
       IN  \E f1 \in (IF saves THEN Failures(adapter) ELSE {FALSE}) :
           \E f2, f3 \in (IF saves /\ isInitialPurchase(p)
                          THEN Failures(adapter) ELSE {FALSE}) :
             LET o == onPurchaseSuccess(adapter, config, users, subscriptions,
                                        processed[h], p, now, f1, f2)
             IN  /\ Finish(Call("onPurchaseSuccess", p, NoPlan, now, Store, << >>)
                             @@ [ hook |-> h, seen |-> processed[h],
                                  finished |-> o.finished,
                                  local |-> localIsSubscribed ],
                           o)
                 /\ processed' = [ processed EXCEPT ![h] = o.seen ]
                 /\ localIsSubscribed' =
                       purchaseLocalIsSubscribed(adapter, o.users, processed[h],
                                                 p, now, localIsSubscribed, f3)
    /\ UNCHANGED << testRenewalLogic, adapter, config, feed, keep, mockDate,
                    isVisible, now, calls >>

\* Purchases of the chain "o1": transaction "t1" expiring never or at
\* MaxTime - 1, and transaction "t2".
PurchaseEvents ==
    { Event("t1", "o1", MaxTime, NoDate, x) : x \in {NoDate, MaxTime - 1} }
    \cup { Event("t2", "o1", MaxTime, NoDate, NoDate) }

InitPurchase == InitWith(Adapters, Configs, PurchaseEvents, FALSE)

\* The purchase callback and the subscription monitoring of one mounted
\* hook, with the operations of the application.
NextPurchase ==
    \/ Tick
    \/ Return
    \/ InitializeUser
    \/ UseGeneration
    \/ CancelSubscription
    \/ \E e \in feed, reason \in Reasons :
          OnPurchaseSuccess("TabLayout", e, reason)
    \/ \E e \in feed : CheckAndHandleRenewal(e)

SpecPurchase == InitPurchase /\ [][NextPurchase]_vars

\* ------------------------------------------------- two hooks mounted

\* Two purchases of the chain "o1" that never expire.
MountedEvents ==
    { Event(id, "o1", MaxTime, NoDate, NoDate) : id \in {"t1", "t2"} }

InitMounted == InitWith(Adapters, Configs, MountedEvents, FALSE)

\* The purchase callbacks of the hooks mounted in the tab layout and in the
\* SubscriptionModal, each handed the purchases of the feed.
NextMounted ==
    \/ Tick
    \/ Return
    \/ InitializeUser
    \/ UseGeneration
    \/ \E h \in Hooks, e \in feed, reason \in Reasons :
          OnPurchaseSuccess(h, e, reason)

SpecMounted == InitMounted /\ [][NextMounted]_vars

\* ------------------------------------------------- the provider's config

\* No TokenProvider has been rendered.
NoConfig == [ productId |-> NoId ]

\* TokenProvider's `useMemo(() => { createConfig; validateConfig })`: the
\* full config, or the render throws.
Provide(uc) ==
    /\ Ready
    /\ LET full == createConfig(uc)
       IN  /\ config' = IF validateConfig(full) THEN full ELSE config
           /\ last' = [ op |-> "createConfig", input |-> uc, config |-> full,
                        threw |-> ~validateConfig(full) ]
    /\ UNCHANGED << localIsSubscribed, testRenewalLogic, adapter, feed, keep, processed, mockDate, isVisible, now,
                    users, subscriptions, calls, prev, tally >>

\* The provider's initialize effect, once a config is in place.
ProvidedInitializeUser ==
    /\ config # NoConfig
    /\ InitializeUser

InitConfig == InitWith(Adapters, {NoConfig}, { }, FALSE)

NextConfig ==
    \/ Return
    \/ \E uc \in UserConfigs : Provide(uc)
    \/ ProvidedInitializeUser

SpecConfig == InitConfig /\ [][NextConfig]_vars

\* ------------------------------------------------ the subscription modal

\* showModal() / hideModal() of the useSubscriptionModal() called in
\* component `i`: setIsVisible of that hook's useState.
setIsVisible(i, v) ==
    /\ isVisible' = [ isVisible EXCEPT ![i] = v ]
    /\ UNCHANGED << localIsSubscribed, testRenewalLogic, adapter, config, feed, keep, processed, mockDate, now,
                    users, subscriptions, calls, last, prev, tally >>

ShowModal(i) == setIsVisible(i, TRUE)

HideModal(i) == setIsVisible(i, FALSE)

InitModal == InitWith(Adapters, Configs, { }, FALSE)

\* A screen that uses generations and shows the modal, under a root layout
\* that renders it.
NextModal ==
    \/ Tick
    \/ Return
    \/ InitializeUser
    \/ UseGeneration
    \/ \E i \in ModalHooks : ShowModal(i)
    \/ \E i \in ModalHooks : HideModal(i)

SpecModal == InitModal /\ [][NextModal]_vars

\* ------------------------------------------------------ the mock date

\* getCurrentDate(): `mockDate || new Date()`
getCurrentDate(mock, t) == IF mock # NoDate THEN mock ELSE t

\* The last instant of the month of `t`, within the instants of the model.
endOfMonth(t) == MaxTime

\* setMockDate(date)
SetMockDate(d) ==
    /\ Ready
    /\ mockDate' = d
    /\ UNCHANGED << localIsSubscribed, testRenewalLogic, adapter, config, feed, keep, processed, isVisible, now,
                    users, subscriptions, calls, last, prev, tally >>

\* setMockDateToEndOfMonth()
SetMockDateToEndOfMonth == SetMockDate(endOfMonth(now))

\* clearMockDate()
ClearMockDate == SetMockDate(NoDate)

\* Events of transaction "t1" in the chain "o1", dated MaxTime, expiring
\* never or at MaxTime - 1.
MockEvents ==
    { Event("t1", "o1", MaxTime, NoDate, x) : x \in {NoDate, MaxTime - 1} }

InitMock == InitWith(Adapters, Configs, MockEvents, FALSE)

\* Renewal monitoring and the purchase callback under a test that sets and
\* clears the mock date.
NextMock ==
    \/ Tick
    \/ Return
    \/ InitializeUser
    \/ \E d \in 1 .. MaxTime : SetMockDate(d)
    \/ SetMockDateToEndOfMonth
    \/ ClearMockDate
    \/ \E e \in feed : CheckAndHandleRenewal(e)
    \/ \E e \in feed, reason \in Reasons :
          OnPurchaseSuccess("TabLayout", e, reason)

SpecMock == InitMock /\ [][NextMock]_vars

\* ------------------------------------------------- SubscriptionService

\* SubscriptionService.saveSubscription(purchase)
SaveSubscription(e) ==
    /\ Ready
    /\ e \in feed
    /\ \E fail \in Failures(adapter) :
         LET r == saveSubscription(adapter, subscriptions, e, now, fail)
         IN  Finish(Call("saveSubscription", e, NoPlan, now, Store, << >>),
                    Outcome(r.ok, users, r.subscriptions,
                            << "upsertSubscription" >>, << >>, "n/a", fail))
    /\ UNCHANGED << Setup, now, calls >>

\* SubscriptionService.cancelSubscription(transactionId)
MarkSubscriptionCancelled(id) ==
    /\ Ready
    /\ \E fail \in Failures(adapter) :
         LET r == markSubscriptionCancelled(adapter, subscriptions, id, fail)
         IN  Finish(Call("markSubscriptionCancelled", NoEvent, NoPlan, now, Store,
                         << >>) @@ [ id |-> id ],
                    Outcome(r.ok, users, r.subscriptions,
                            << "markSubscriptionCancelled" >>, << >>, "n/a", fail))
    /\ UNCHANGED << Setup, now, calls >>

\* SubscriptionService.getActiveSubscription()
GetActiveSubscription ==
    /\ Ready
    /\ \E fail \in Failures(adapter) :
         LET r == getActiveSubscription(adapter, subscriptions, now, fail)
         IN  Finish(Call("getActiveSubscription", NoEvent, NoPlan, now, Store,
                         << >>) @@ [ found |-> r ],
                    Outcome(r # << >>, users, subscriptions, << >>, << >>,
                            "n/a", fail))
    /\ UNCHANGED << Setup, now, calls >>

\* Purchases of the transactions "t1" and "t2", expiring never or at
\* MaxTime - 1.
StoredEvents ==
    { Event(id, "o1", 1, NoDate, x) :
        id \in {"t1", "t2"}, x \in {NoDate, MaxTime - 1} }

InitSubscriptions == InitWith(Adapters, Configs, StoredEvents, FALSE)

NextSubscriptions ==
    \/ Tick
    \/ Return
    \/ \E e \in feed : SaveSubscription(e)
    \/ \E id \in {"t1", "t2", "t9"} : MarkSubscriptionCancelled(id)
    \/ GetActiveSubscription

SpecSubscriptions == InitSubscriptions /\ [][NextSubscriptions]_vars

\* ------------------------------------------------------ the test hook

\* TestRenewalResult
TestRenewalResult(success, message) == [ success |-> success, message |-> message ]

\* testRenewalFlow(): the failure when no function is registered, else what
\* the registered function resolves to (`ran`), or the failure made of the
\* error it throws.
testRenewalFlow(logic, ran) ==
    IF logic = "null"
    THEN TestRenewalResult(FALSE, "Test renewal logic not registered")
    ELSE IF ran = "throws" THEN TestRenewalResult(FALSE, "Error")
    ELSE TestRenewalResult(ran = "renewed", ran)

\* A component calls useTokenSubscription() for the first time: the hook's
\* body creates its ref; it makes no call into testUtils.
Mount(h) ==
    /\ Ready
    /\ h \notin DOMAIN processed
    /\ processed' = [ g \in DOMAIN processed \cup {h} |->
                        IF g = h THEN { } ELSE processed[g] ]
    /\ last' = [ op |-> "useTokenSubscription", hook |-> h ]
    /\ UNCHANGED << localIsSubscribed, testRenewalLogic, adapter, config, feed, keep, mockDate,
                    isVisible, now, users, subscriptions, calls, prev, tally >>

\* setTestRenewalLogic(fn)
SetTestRenewalLogic ==
    /\ Ready
    /\ testRenewalLogic' = "registered"
    /\ UNCHANGED << localIsSubscribed, adapter, config, feed, keep, processed, mockDate,
                    isVisible, now, users, subscriptions, calls, last, prev,
                    tally >>

\* clearTestState()
ClearTestState ==
    /\ Ready
    /\ mockDate' = NoDate
    /\ testRenewalLogic' = "null"
    /\ UNCHANGED << localIsSubscribed, adapter, config, feed, keep, processed, isVisible, now,
                    users, subscriptions, calls, last, prev, tally >>

\* testRenewalFlow()
TestRenewalFlow ==
    /\ Ready
    /\ \E ran \in {"renewed", "not renewed", "throws"} :
         last' = [ op |-> "testRenewalFlow", logic |-> testRenewalLogic,
                   mounted |-> DOMAIN processed,
                   result |-> testRenewalFlow(testRenewalLogic, ran) ]
    /\ UNCHANGED << Setup, now, users, subscriptions, calls, prev, tally >>

\* No component has called useTokenSubscription() yet.
InitTest ==
    /\ adapter \in Adapters
    /\ config \in Configs
    /\ feed = { }
    /\ keep = FALSE
    /\ now = 1
    /\ users = << >>
    /\ subscriptions = << >>
    /\ calls = [ s \in Slots |-> Idle ]
    /\ last = NoCall
    /\ prev = NoCall
    /\ tally = -1
    /\ processed = << >>
    /\ mockDate = NoDate
    /\ isVisible = [ i \in ModalHooks |-> FALSE ]
    /\ testRenewalLogic = "null"
    /\ localIsSubscribed = FALSE

NextTest ==
    \/ Tick
    \/ Return
    \/ \E h \in Hooks : Mount(h)
    \/ \E d \in 1 .. MaxTime : SetMockDate(d)
    \/ SetTestRenewalLogic
    \/ ClearTestState
    \/ TestRenewalFlow

SpecTest == InitTest /\ [][NextTest]_vars

\* ------------------------------------------- adapters and callbacks throw

\* Nothing throws, one method or callback throws, or all of them do.
ThrowSets ==
    { { } } \cup { {n} : n \in AdapterMethods \cup CallbackNames }
            \cup { AdapterMethods \cup CallbackNames }

\* A method of the services is called while the calls of `th` throw.
Attempt(m, e, th) ==
    /\ Ready
    /\ e \in feed
    /\ LET r == Attempted(m, adapter, config, users, subscriptions, e, now, th)
       IN  /\ users' = r.users
           /\ subscriptions' = r.subscriptions
           /\ last' = [ op |-> "attempt", method |-> m, event |-> e, th |-> th,
                        at |-> now, before |-> Store, kind |-> r.kind,
                        value |-> r.value, threw |-> r.threw ]
    /\ UNCHANGED << Setup, now, calls, prev, tally >>

InitThrows == InitWith(Adapters, Configs, ConcurrentEvents, FALSE)

NextThrows ==
    \/ Tick
    \/ Return
    \/ \E m \in Methods, e \in feed, th \in ThrowSets : Attempt(m, e, th)

SpecThrows == InitThrows /\ [][NextThrows]_vars

\* ------------------------------------------------ initializeUser in flight

\* What initializeUser returns: the user record, or null.
ReturnedUser(r) == IF r.ok THEN << r.users[1] >> ELSE << >>

\* initializeUser up to the end of the select: InMemoryAdapter has no await
\* between Map.get and Map.set and runs whole; SupabaseAdapter returns null
\* on an error, returns the row it found, or goes on to the insert.
InitializeUserSelect(s) ==
    /\ Ready
    /\ FreeSlot(s)
    /\ \E f1 \in Failures(adapter) :
         LET c == Started("initializeUser", NoEvent, now,
                          IF f1 THEN << >> ELSE users)
             r == initializeUser(adapter, users, config.freeTierLimit, now, f1)
         IN  IF adapter = "memory" \/ f1 \/ Len(users) > 0
             THEN /\ Finish(c @@ [ user |-> ReturnedUser(r) ],
                            TokenManager_initializeUser(adapter, config, users,
                                                        subscriptions, now, f1))
                  /\ UNCHANGED calls
             ELSE /\ calls' = [ calls EXCEPT ![s] = InFlight(c, f1, "insert") ]
                  /\ UNCHANGED << users, subscriptions, last, prev, tally >>
    /\ UNCHANGED << Setup, now >>

\* SupabaseAdapter.initializeUser: the insert and the return.
InitializeUserInsert(s) ==
    /\ Ready
    /\ calls[s].pc = "insert"
    /\ \E f2 \in Failures(adapter) :
         LET r == insertUser(users, config.freeTierLimit, now, f2)
         IN  /\ Finish(calls[s].call @@ [ user |-> ReturnedUser(r) ],
                       Outcome(r.ok, r.users, subscriptions,
                               IF r.ok THEN << "initializeUser" >> ELSE << >>,
                               << >>, "n/a", ~r.ok))
             /\ calls' = [ calls EXCEPT ![s] = Idle ]
    /\ UNCHANGED << Setup, now >>

InitInitialize == InitWith(Adapters, Configs, { }, FALSE)

\* Launches of the application racing on one device, between the operations
\* that change the user record.
NextInitialize ==
    \/ Tick
    \/ Return
    \/ \E s \in Slots : InitializeUserSelect(s)
    \/ \E s \in Slots : InitializeUserInsert(s)
    \/ UseGeneration
    \/ ActivateSubscription("pro")
    \/ CancelSubscription

SpecInitialize == InitInitialize /\ [][NextInitialize]_vars

\* ------------------------------------------------------------------ claims

Subscribed(rows) ==
    /\ rows # << >>
    /\ rows[1].subscriptionPlan \notin {NoPlan, ""}

Delivered == last.op = "checkAndHandleRenewal"

\* The call before the last one was a delivery of the same chain, and only
\* the clock has moved since.
Redelivered ==
    /\ Delivered
    /\ prev # NoCall
    /\ prev.event.originalTransactionIdentifierIOS =
          last.event.originalTransactionIdentifierIOS

\* C1: delivering to a subscribed user, again and at any later time, the
\* non-expired event that has just caused a reset returns false and leaves
\* the user record and the stored transactions as the first delivery left
\* them.
C1_ReplayIsIdempotent ==
    (Redelivered /\ prev.event = last.event /\ prev.ret = TRUE)
    => /\ last.ret = FALSE
       /\ users = last.before.users
       /\ subscriptions = last.before.subscriptions

\* C2: of two events of a chain with transaction dates T1 < T2 and T2 at or
\* after the stored lastRenewalAt, delivered T2 first and T1 second (no
\* backend request failing), T2 is applied and T1 is skipped without a
\* mutation.
C2_OlderIsSkipped ==
    ( /\ Redelivered
      /\ last.event.transactionDate < prev.event.transactionDate
      /\ Subscribed(prev.before.users)
      /\ prev.before.users[1].lastRenewalAt # NullDate
      /\ prev.event.transactionDate
            >= getTime(prev.before.users[1].lastRenewalAt)
      /\ ~prev.err /\ ~last.err )
    => /\ prev.ret = TRUE
       /\ last.ret = FALSE
       /\ users = last.before.users
       /\ subscriptions = last.before.subscriptions

\* The six-step decision procedure on the stored record a delivery started
\* from: not expired, linked, a user record, a plan, and no reset yet or a
\* transaction date after it.
SixSteps(c) ==
    /\ ~(c.event.expirationDateIOS # NoDate /\ c.event.expirationDateIOS <= c.at)
    /\ c.event.originalTransactionIdentifierIOS # NoId
    /\ c.before.users # << >>
    /\ c.before.users[1].subscriptionPlan # NoPlan
    /\ c.before.users[1].subscriptionPlan # ""
    /\ \/ c.before.users[1].lastRenewalAt = NullDate
       \/ c.event.transactionDate > getTime(c.before.users[1].lastRenewalAt)

C4_SkipChangesNothing ==
    ( /\ Delivered
      /\ \/ last.decision # "renew"
         \/ last.event.transactionDate # NoDate /\ ~SixSteps(last) )
    => /\ users = last.before.users
       /\ subscriptions = last.before.subscriptions
       /\ last.writes = << >>
       /\ last.fired = << >>
       /\ last.ret = FALSE

\* C4: an expired event delivered to a subscribed user whose transaction is
\* stored.
C4_Witness ==
    /\ Delivered
    /\ last.decision = "expired"
    /\ Subscribed(users)
    /\ subscriptions # << >>

C6_LaterPaymentResets ==
    ( /\ Redelivered
      /\ prev.ret = TRUE
      /\ last.event.transactionDate > prev.event.transactionDate
      /\ ~last.err )
    => last.ret = TRUE

\* C7: no call lowers the stored lastRenewalAt or makes it null again.
C7_LastRenewalMonotone ==
    ( /\ last # NoCall
      /\ last.before.users # << >>
      /\ last.before.users[1].lastRenewalAt # NullDate )
    => /\ users # << >>
       /\ users[1].lastRenewalAt # NullDate
       /\ getTime(users[1].lastRenewalAt)
            >= getTime(last.before.users[1].lastRenewalAt)

\* C7: a cancellation of a subscription that has been renewed keeps the
\* stamp of the renewal.
C7_Witness ==
    /\ last.op = "cancelSubscription"
    /\ last.ret = TRUE
    /\ last.before.users # << >>
    /\ last.before.users[1].lastRenewalAt # NullDate
    /\ getTime(last.before.users[1].lastRenewalAt) > 1
    /\ users[1].lastRenewalAt = last.before.users[1].lastRenewalAt

\* C8: under a validated config and any interleaving of the operations'
\* store requests, generationsLeft is never negative, and a useGeneration
\* that returns true has read a balance above 0.
C8_BalanceFloor ==
    /\ \A i \in 1 .. Len(users) : users[i].generationsLeft >= 0
    /\ (last.op = "useGeneration" /\ last.ret = TRUE)
       => /\ last.read # << >>
          /\ last.read[1].generationsLeft > 0

\* C8: a useGeneration that read balance 0 after another call in flight had
\* used the last generation.
C8_Witness ==
    /\ last.op = "useGeneration"
    /\ last.ret = FALSE
    /\ last.read # << >>
    /\ last.read[1].generationsLeft = 0
    /\ \E s \in Slots : calls[s].pc = "write"

\* C9: useGeneration with no user record or with balance 0 returns false,
\* makes no adapter write and fires no callback; with balance b > 0 and no
\* failing backend request it stores b - 1, returns true and fires
\* onGenerationUsed(b - 1).
C9_UseGeneration ==
    last.op = "useGeneration"
    => LET b == last.before.users
       IN  /\ (b = << >> \/ b[1].generationsLeft = 0)
              => /\ last.ret = FALSE
                 /\ last.writes = << >>
                 /\ last.fired = << >>
                 /\ users = b
           /\ (b # << >> /\ b[1].generationsLeft > 0 /\ ~last.err)
              => /\ last.ret = TRUE
                 /\ last.writes = << "updateGenerations" >>
                 /\ users = << [ b[1] EXCEPT
                                   !.generationsLeft = b[1].generationsLeft - 1 ] >>
                 /\ last.fired # << >>
                 /\ last.fired[1] =
                      Callback("onGenerationUsed", b[1].generationsLeft - 1)

\* C9: a generation used with one still left after it.
C9_Witness ==
    /\ last.op = "useGeneration"
    /\ last.ret = TRUE
    /\ last.before.users[1].generationsLeft = 2
    /\ users[1].generationsLeft = 1
    /\ last.fired = << Callback("onGenerationUsed", 1) >>


\* C10: of two useGeneration calls in flight together that both read
\* balance b >= 2, with no reset since, and both return true, the second to
\* return leaves the stored balance at b - 2.
C10_AtomicDecrement ==
    ( /\ last.op = "useGeneration"
      /\ last.ret = TRUE
      /\ last.raced
      /\ last.clean
      /\ last.read[1].generationsLeft >= 2 )
    => users[1].generationsLeft = last.read[1].generationsLeft - 2

\* C11: when one useGeneration and one checkAndHandleRenewal deciding 'renew'
\* overlap and both succeed, with no other write between, the stored balance
\* after the second of them returns is proTierLimit or proTierLimit - 1.
C11_ResetNeverLost ==
    ( /\ \/ last.op = "useGeneration" /\ last.since = "checkAndHandleRenewal"
         \/ last.op = "checkAndHandleRenewal" /\ last.since = "useGeneration"
      /\ last.ret = TRUE )
    => users[1].generationsLeft
          \in {config.proTierLimit, config.proTierLimit - 1}

\* How many times a returned call fired callback `cb`.
TimesFired(cb) ==
    Cardinality({ i \in 1 .. Len(last.fired) : last.fired[i].cb = cb })

\* C12: a useGeneration call fires onLimitReached once when it succeeds and
\* takes the stored balance from 1 to 0, and not at all otherwise (a call at
\* balance 0 returns false and fires nothing).
C12_EdgeTriggered ==
    last.op = "useGeneration"
    => /\ TimesFired("onLimitReached") =
            IF /\ last.ret = TRUE
               /\ last.before.users # << >>
               /\ last.before.users[1].generationsLeft = 1
               /\ users[1].generationsLeft = 0
            THEN 1 ELSE 0
       /\ (last.before.users # << >> /\ last.before.users[1].generationsLeft = 0)
          => last.ret = FALSE /\ last.fired = << >>

\* C12: the call that uses the last generation of a subscribed user.
C12_Witness ==
    /\ last.op = "useGeneration"
    /\ last.ret = TRUE
    /\ last.before.users[1].generationsLeft = 1
    /\ users[1].generationsLeft = 0
    /\ last.fired = << Callback("onGenerationUsed", 0),
                       Callback("onLimitReached", FALSE) >>

\* C13: canGenerate answers by the gating table on the stored record (when the
\* read of the store does not fail): no record, or no plan and balance 0:
\* not allowed, upgrade needed; balance above 0: allowed, with the stored
\* balance as remaining; a plan and balance 0: not allowed, no upgrade needed.
C13_GatingTable ==
    (last.op = "canGenerate" /\ ~last.err)
    => LET b == last.before.users
           r == last.check
           plan == b[1].subscriptionPlan \notin {NoPlan, ""}
       IN  /\ b = << >>
              => r.canGenerate = FALSE /\ r.needsSubscription = TRUE
           /\ (b # << >> /\ b[1].generationsLeft > 0)
              => /\ r.canGenerate = TRUE
                 /\ r.generationsLeft = b[1].generationsLeft
           /\ (b # << >> /\ ~plan /\ b[1].generationsLeft = 0)
              => r.canGenerate = FALSE /\ r.needsSubscription = TRUE
           /\ (b # << >> /\ plan /\ b[1].generationsLeft = 0)
              => r.canGenerate = FALSE /\ r.needsSubscription = FALSE
           /\ users = b

\* C13: the check of a user whose plan is the empty string and whose balance
\* is used up.
C13_Witness ==
    /\ last.op = "canGenerate"
    /\ ~last.err
    /\ last.before.users # << >>
    /\ last.before.users[1].subscriptionPlan = ""
    /\ last.before.users[1].generationsLeft = 0
    /\ last.check = GenerationCheckResult(FALSE, 0, TRUE)

\* C14: on a device that never purchases, initializeUser on the new device
\* leaves generationsLeft = freeTierLimit and no plan; then (no backend
\* request failing) the n-th useGeneration that returns true leaves
\* freeTierLimit - n, a useGeneration returns false exactly when
\* freeTierLimit calls have returned true, and canGenerate then reports that
\* a subscription is needed.
C14_FreeTierLifecycle ==
    LET L == config.freeTierLimit
    IN  /\ (last.op = "initializeUser" /\ last.before.users = << >> /\ ~last.err)
           => users = << UserData(NoPlan, L, toISOString(last.at), NullDate) >>
        /\ (last.op = "useGeneration" /\ last.before.users # << >> /\ ~last.err)
           => /\ last.ret = TRUE
                 => tally \in 1 .. L /\ users[1].generationsLeft = L - tally
              /\ last.ret = FALSE
                 => tally = L /\ users[1].generationsLeft = 0
        /\ (last.op = "canGenerate" /\ last.before.users # << >> /\ ~last.err)
           => /\ last.check.canGenerate = (tally < L)
              /\ tally = L => last.check.needsSubscription = TRUE

\* C14: the call after the freeTierLimit-th is refused.
C14_Witness ==
    /\ last.op = "useGeneration"
    /\ last.ret = FALSE
    /\ ~last.err
    /\ config.freeTierLimit = MaxLimit
    /\ tally = MaxLimit
    /\ last.before.users # << >>
    /\ last.before.users[1].generationsLeft = 0

\* C15: activateSubscription(plan) on an existing user, its store write
\* succeeding, sets the plan, generationsLeft = proTierLimit and lastRenewalAt
\* = the time of the call in one write, returns true and fires
\* onSubscriptionActivated once; with no user record or a failing write it
\* returns false, changes nothing and fires nothing.
C15_Activation ==
    last.op = "activateSubscription"
    => LET b == last.before.users
       IN  /\ (b # << >> /\ ~last.err)
              => /\ last.ret = TRUE
                 /\ users = << [ b[1] EXCEPT
                                   !.subscriptionPlan = last.plan,
                                   !.generationsLeft = config.proTierLimit,
                                   !.lastRenewalAt = toISOString(last.at) ] >>
                 /\ last.writes = << "updateSubscriptionPlan" >>
                 /\ last.fired = << Callback("onSubscriptionActivated", TRUE) >>
           /\ (b = << >> \/ last.err)
              => /\ last.ret = FALSE
                 /\ users = b
                 /\ subscriptions = last.before.subscriptions
                 /\ last.fired = << >>

\* C16: cancelSubscription on an existing user, its store write succeeding,
\* sets subscriptionPlan to null and leaves generationsLeft, lastRenewalAt
\* and createdAt as they were, with either adapter.
C16_CancelKeepsBalance ==
    ( /\ last.op = "cancelSubscription"
      /\ last.before.users # << >>
      /\ ~last.err )
    => /\ last.ret = TRUE
       /\ users = << [ last.before.users[1] EXCEPT !.subscriptionPlan = NoPlan ] >>

\* The two adapters give the same result and the same state for operation
\* `op` on the present state (the backend not erroring).
Agree(op) ==
    CASE op = "getUserData" ->
           getUserData("memory", users, FALSE) = getUserData("supabase", users, FALSE)
      [] op = "initializeUser" ->
           initializeUser("memory", users, config.freeTierLimit, now, FALSE)
             = initializeUser("supabase", users, config.freeTierLimit, now, FALSE)
      [] op = "updateGenerations" ->
           \A n \in 0 .. MaxLimit :
              updateGenerations("memory", users, n, FALSE)
                = updateGenerations("supabase", users, n, FALSE)
      [] op = "updateSubscriptionPlan" ->
           \A plan \in Plans :
              updateSubscriptionPlan("memory", users, plan, config.proTierLimit,
                                     now, FALSE)
                = updateSubscriptionPlan("supabase", users, plan,
                                         config.proTierLimit, now, FALSE)
      [] op = "updateLastRenewal" ->
           updateLastRenewal("memory", users, toISOString(now), FALSE)
             = updateLastRenewal("supabase", users, toISOString(now), FALSE)
      [] op = "cancelSubscription" ->
           cancelSubscription("memory", users, FALSE)
             = cancelSubscription("supabase", users, FALSE)
      [] op = "upsertSubscription" ->
           \A e \in feed :
              upsertSubscription("memory", subscriptions, e, now, FALSE)
                = upsertSubscription("supabase", subscriptions, e, now, FALSE)
      [] op = "markSubscriptionCancelled" ->
           \A id \in {"t1", "t9"} :
              markSubscriptionCancelled("memory", subscriptions, id, FALSE)
                = markSubscriptionCancelled("supabase", subscriptions, id, FALSE)

AdapterOperations ==
    { "getUserData", "initializeUser", "updateGenerations",
      "updateSubscriptionPlan", "updateLastRenewal", "cancelSubscription",
      "upsertSubscription", "markSubscriptionCancelled" }

\* C17: from every state the operations lead to, InMemoryAdapter and
\* SupabaseAdapter (its backend not erroring) return the same result and
\* leave the same user and transaction state for every StorageAdapter
\* operation, with or without a user record, for a purchase with or without
\* a transaction id, expired or not, and for a known or unknown id to cancel.
C17_AdaptersEquivalent == \A op \in AdapterOperations : Agree(op)

\* The stored records that carry none of the feed's transaction ids.
Unidentified ==
    { i \in 1 .. Len(subscriptions) :
        subscriptions[i].transactionId \notin { e.transactionId : e \in feed } \ {NoId} }

\* C18: the store holds at most one record per transaction id, a delivery of
\* an event whose id is already stored adds no record, and the deliveries of
\* an event without a transaction id leave at most one record between them.
C18_UpsertUniqueness ==
    /\ \A i, j \in 1 .. Len(subscriptions) :
          subscriptions[i].transactionId = subscriptions[j].transactionId => i = j
    /\ ( /\ last.op = "checkAndHandleRenewal"
         /\ IndexOf(last.before.subscriptions, last.event.transactionId) > 0 )
       => Len(subscriptions) = Len(last.before.subscriptions)
    /\ Cardinality(Unidentified) <= 1

\* C19: there is never more than one user record; on a device with a record
\* initializeUser changes nothing whatever limit it is given; a returned
\* initializeUser call whose requests did not fail returns the stored record,
\* which is the one it found, unchanged, or, when it found none, a new one
\* with generationsLeft = freeTierLimit, no plan and no lastRenewalAt.
C19_CreateOnce ==
    /\ Len(users) <= 1
    /\ users # << >> =>
          \A f \in 0 .. MaxLimit, a \in Adapters :
             initializeUser(a, users, f, now, FALSE) = Result(TRUE, users)
    /\ (last.op = "initializeUser" /\ ~last.err) =>
          /\ last.ret = TRUE
          /\ last.user = users
          /\ IF last.read = << >>
             THEN /\ users[1].generationsLeft = config.freeTierLimit
                  /\ users[1].subscriptionPlan = NoPlan
                  /\ users[1].lastRenewalAt = NullDate
             ELSE users = last.read

\* initializeUser has returned a record whose plan is set and whose balance
\* is not the free-tier limit.
C19_Witness ==
    /\ last.op = "initializeUser"
    /\ ~last.err
    /\ last.read # << >>
    /\ last.read[1].subscriptionPlan = "pro"
    /\ last.read[1].generationsLeft # config.freeTierLimit
    /\ last.read[1].lastRenewalAt # NullDate

\* onPurchaseSuccess has returned for a purchase whose id it had not
\* processed, which had not expired and whose reason is PURCHASE / purchase.
InitialPurchase ==
    /\ last.event.transactionId \notin last.seen
    /\ isActive(last.event.expirationDateIOS, last.at)
    /\ last.event.transactionReasonIOS \in {"PURCHASE", "purchase"}

\* C20: a returned onPurchaseSuccess has called activateSubscription exactly
\* when the purchase's id was not yet processed, the purchase had not expired
\* and its reason is PURCHASE or purchase, and then the record of an existing
\* user is the one activateSubscription('pro') leaves; it has taken no renewal
\* decision; in every other case the user records are as they were.
C20_PurchasePath ==
    last.op = "onPurchaseSuccess" =>
       /\ (\E i \in 1 .. Len(last.writes) : last.writes[i] = "updateSubscriptionPlan")
             <=> InitialPurchase
       /\ last.decision = "n/a"
       /\ ~InitialPurchase => users = last.before.users
       /\ (InitialPurchase /\ ~last.err /\ last.before.users # << >>) =>
             users = << [ last.before.users[1] EXCEPT
                            !.subscriptionPlan = "pro",
                            !.generationsLeft = config.proTierLimit,
                            !.lastRenewalAt = toISOString(last.at) ] >>

\* onPurchaseSuccess has returned for a first-seen, unexpired purchase with
\* reason RENEWAL that checkAndHandleRenewal would have renewed from the same
\* store, and has saved it.
C20_Witness ==
    /\ last.op = "onPurchaseSuccess"
    /\ last.event.transactionReasonIOS = "RENEWAL"
    /\ last.event.transactionId \notin last.seen
    /\ last.writes = << "upsertSubscription" >>
    /\ renewalDecision(adapter, last.before.users, last.event, last.at, FALSE)
          = "renew"
    /\ last.before.users[1].generationsLeft # config.proTierLimit

\* The hooks whose onPurchaseSuccess has run the save-and-activate processing
\* for transaction `id`: with purchases that never expire, those that hold
\* the id in their processed set.
Processors(id) == { h \in Hooks : id \in processed[h] }

\* C21: for every transaction id, the save-and-activate processing has run
\* in at most one of the mounted hooks.
C21_ProcessedOnce ==
    \A e \in feed : Cardinality(Processors(e.transactionId)) <= 1

\* C22: every returned onPurchaseSuccess, whether the purchase was new,
\* already processed or expired, has called finishTransaction for it.
C22_Acknowledged ==
    last.op = "onPurchaseSuccess" => last.finished

\* What a method returns for a failure: null, the denied result, no
\* generations, or false.
FailureValue(m) ==
    CASE m \in {"initializeUser", "getUserData"} -> << >>
      [] m = "canGenerate" -> GenerationCheckResult(FALSE, 0, TRUE)
      [] m = "getGenerationsLeft" -> 0
      [] OTHER -> FALSE

\* C23: a method of TokenManager or RenewalService during which an adapter
\* call or a callback threw has resolved, never rejected, and to its failure
\* value.
C23_NeverRejects ==
    (last.op = "attempt" /\ last.threw) =>
       /\ last.kind = "resolved"
       /\ last.value = FailureValue(last.method)

\* C24: a returned checkAndHandleRenewal has either returned true with the
\* event's transaction record stored and the user record reset, or returned
\* false with the user table and the transaction records as they were.
C24_AllOrNothing ==
    last.op = "checkAndHandleRenewal" =>
       IF last.ret
       THEN /\ \E i \in 1 .. Len(subscriptions) :
                  subscriptions[i] = SubscriptionData(adapter, last.event, last.at)
            /\ users # << >>
            /\ users[1].generationsLeft = config.proTierLimit
            /\ users[1].lastRenewalAt = toISOString(last.at)
       ELSE /\ users = last.before.users
            /\ subscriptions = last.before.subscriptions

\* An event without the chain's id, or with neither transactionDate nor
\* purchaseDateIOS.
Malformed(e) ==
    \/ e.originalTransactionIdentifierIOS = NoId
    \/ (e.transactionDate = NoDate /\ e.purchaseDateIOS = NoDate)

\* C25: a returned checkAndHandleRenewal for a malformed event has returned
\* false without deciding to renew, and the user table and the transaction
\* records are as they were.
C25_MalformedSkipped ==
    (last.op = "checkAndHandleRenewal" /\ Malformed(last.event)) =>
       /\ last.ret = FALSE
       /\ last.decision # "renew"
       /\ users = last.before.users
       /\ subscriptions = last.before.subscriptions

\* C26: the renewal check's and the purchase callback's expiry test, and the
\* lastRenewalAt they stamp, are taken at getCurrentDate(): the mock date
\* while one is set, the wall clock otherwise.
C26_MockClockGoverns ==
    LET clock == getCurrentDate(mockDate, last.at)
    IN  /\ last.op = "checkAndHandleRenewal" =>
              (last.decision = "expired"
                 <=> ~isActive(last.event.expirationDateIOS, clock))
        /\ (last.op = "onPurchaseSuccess"
              /\ last.event.transactionId \notin last.seen) =>
              (last.writes = << >>
                 <=> ~isActive(last.event.expirationDateIOS, clock))
        /\ ( /\ last.op \in {"checkAndHandleRenewal", "onPurchaseSuccess"}
             /\ last.ret = TRUE
             /\ users # << >> ) =>
              users[1].lastRenewalAt = toISOString(clock)

\* C27: the config TokenProvider builds keeps every given field, an explicit
\* limit of 0 included, and has freeTierLimit 5, proTierLimit 100 and
\* resetPeriod 'monthly' for the omitted ones; building it throws exactly
\* when productId is empty, a limit is negative, or resetPeriod is not
\* monthly, weekly or daily.
C27_Configuration ==
    last.op = "createConfig" =>
       LET uc == last.input
           c == last.config
       IN  /\ c.productId = uc.productId
           /\ c.freeTierLimit =
                 (IF uc.freeTierLimit = << >> THEN 5 ELSE uc.freeTierLimit[1])
           /\ c.proTierLimit =
                 (IF uc.proTierLimit = << >> THEN 100 ELSE uc.proTierLimit[1])
           /\ c.resetPeriod =
                 (IF uc.resetPeriod = << >> THEN "monthly" ELSE uc.resetPeriod[1])
           /\ last.threw <=>
                 \/ c.productId = NoId
                 \/ c.freeTierLimit < 0
                 \/ c.proTierLimit < 0
                 \/ c.resetPeriod \notin {"monthly", "weekly", "daily"}
           /\ ~last.threw => config = c

\* A config with an explicit free-tier limit of 0 and the other fields
\* omitted has been accepted.
C27_Witness ==
    /\ last.op = "createConfig"
    /\ last.input.freeTierLimit = << 0 >>
    /\ last.input.proTierLimit = << >>
    /\ last.input.resetPeriod = << >>
    /\ ~last.threw
    /\ config.freeTierLimit = 0

\* C28: every useSubscriptionModal() instance has the same isVisible: what
\* showModal() or hideModal() of one sets is what the root layout's shows.
C28_GlobalModal ==
    \A i, j \in ModalHooks : isVisible[i] = isVisible[j]

\* C29: a returned testRenewalFlow() called while a useTokenSubscription is
\* mounted has run the registered function, not returned the 'not
\* registered' failure; called with no function registered it has returned
\* success = false.
C29_TestHookRegistered ==
    last.op = "testRenewalFlow" =>
       /\ last.mounted # { } =>
             last.result.message # "Test renewal logic not registered"
       /\ last.logic = "null" => last.result.success = FALSE

\* C30: a successful cancelSubscription leaves the user without a plan, and
\* a checkAndHandleRenewal delivered to a user without a plan returns false
\* and leaves the user record and the transaction records as they were: from
\* the cancellation on, deliveries of the subscription list alone change
\* nothing.
C30_CancelledStaysFree ==
    /\ (last.op = "cancelSubscription" /\ last.ret = TRUE /\ users # << >>) =>
          users[1].subscriptionPlan = NoPlan
    /\ ( /\ last.op = "checkAndHandleRenewal"
         /\ last.before.users # << >>
         /\ last.before.users[1].subscriptionPlan = NoPlan ) =>
          /\ last.ret = FALSE
          /\ users = last.before.users
          /\ subscriptions = last.before.subscriptions

\* A renewal event dated after the last renewal has been delivered to a user
\* whose subscription had been activated and cancelled.
C30_Witness ==
    /\ last.op = "checkAndHandleRenewal"
    /\ last.before.users # << >>
    /\ last.before.users[1].subscriptionPlan = NoPlan
    /\ last.before.users[1].lastRenewalAt # NullDate
    /\ last.event.originalTransactionIdentifierIOS # NoId
    /\ isActive(last.event.expirationDateIOS, last.at)
    /\ transactionDateOf(last.event, last.at)
          > getTime(last.before.users[1].lastRenewalAt)

\* C31: the transaction a returned getActiveSubscription has found is not
\* marked cancelled and has not expired before the instant of the call.
C31_ActiveIsLive ==
    (last.op = "getActiveSubscription" /\ last.found # << >>) =>
       /\ ~last.found[1].isCancelled
       /\ ~(last.found[1].expirationDate # NoDate
            /\ last.found[1].expirationDate < last.at)

\* C32: a record that was marked cancelled before a returned operation is
\* still cancelled and inactive after it, and a record is marked cancelled
\* after an operation that is not markSubscriptionCancelled only if it was
\* before.
C32_CancellationSticky ==
    last.op \in {"saveSubscription", "markSubscriptionCancelled",
                 "getActiveSubscription"} =>
       LET old == last.before.subscriptions
       IN  /\ \A i \in 1 .. Len(old), j \in 1 .. Len(subscriptions) :
                (old[i].isCancelled
                   /\ subscriptions[j].transactionId = old[i].transactionId) =>
                   subscriptions[j].isCancelled /\ ~subscriptions[j].isActive
           /\ last.op # "markSubscriptionCancelled" =>
                \A j \in 1 .. Len(subscriptions) :
                   subscriptions[j].isCancelled =>
                      \E i \in 1 .. Len(old) :
                         /\ old[i].transactionId = subscriptions[j].transactionId
                         /\ old[i].isCancelled

\* C33: every stored user whose subscriptionPlan is not null has a
\* lastRenewalAt that is not null.
C33_SubscribedHasRenewalDate ==
    \A i \in 1 .. Len(users) :
       users[i].subscriptionPlan # NoPlan => users[i].lastRenewalAt # NullDate

\* A user who had never renewed is given a plan by activateSubscription.
C33_Witness ==
    /\ last.op = "activateSubscription"
    /\ last.ret
    /\ last.before.users # << >>
    /\ last.before.users[1].lastRenewalAt = NullDate
    /\ users # << >>
    /\ users[1].subscriptionPlan # NoPlan

\* C34: a checkAndHandleRenewal that returned true leaves the stored
\* subscriptionPlan as it was before the call.
C34_RenewalKeepsPlan ==
    (last.op = "checkAndHandleRenewal" /\ last.ret) =>
       /\ Len(users) = Len(last.before.users)
       /\ \A i \in 1 .. Len(users) :
             users[i].subscriptionPlan = last.before.users[i].subscriptionPlan

\* C35: hasSubscription() returns true only when a user record is stored
\* whose subscriptionPlan is neither null nor the empty string.
C35_SubscribedFailClosed ==
    (last.op = "attempt" /\ last.method = "hasSubscription"
       /\ last.value = TRUE) =>
       \E i \in 1 .. Len(last.before.users) :
          last.before.users[i].subscriptionPlan \notin {NoPlan, ""}

\* C36: the argument of the onLimitReached a returned useGeneration fired is
\* the needsSubscription of the canGenerate that follows it.
C36_LimitReachedAgrees ==
    last.op = "useGeneration" =>
       \A i \in 1 .. Len(last.fired) :
          last.fired[i].cb = "onLimitReached" =>
             last.fired[i].arg = canGenerate(adapter, users, FALSE).needsSubscription

\* C37: a useGeneration that returned false has left the stored
\* generationsLeft as it was.
C37_FalseLeavesBalance ==
    (last.op = "attempt" /\ last.method = "useGeneration"
       /\ last.value = FALSE) =>
       /\ Len(users) = Len(last.before.users)
       /\ \A i \in 1 .. Len(users) :
             users[i].generationsLeft = last.before.users[i].generationsLeft

\* C38: an onPurchaseSuccess that processed a non-expired initial purchase
\* has called finishTransaction only if the activation returned true, and
\* has kept the id in the hook's processed set only if it did.
C38_AcknowledgedOnlyIfActivated ==
    (/\ last.op = "onPurchaseSuccess"
     /\ last.event.transactionId \notin last.seen
     /\ purchaseIsActive(last.event, last.at)
     /\ isInitialPurchase(last.event)) =>
       /\ last.finished => last.ret
       /\ ~last.ret => last.event.transactionId \notin processed[last.hook]

\* C39: an onPurchaseSuccess for a purchase that has expired leaves the user
\* table, the stored transactions and the provider's localIsSubscribed as
\* they were.
C39_ExpiredChangesNothing ==
    (last.op = "onPurchaseSuccess" /\ ~purchaseIsActive(last.event, last.at)) =>
       /\ users = last.before.users
       /\ subscriptions = last.before.subscriptions
       /\ localIsSubscribed = last.local

====
